---- MODULE Spec2Model ----
(***************************************************************************)
(* The job submission / polling state machine of the Home component        *)
(* (src/app/routes/home.tsx) together with the fetch wrapper it uses       *)
(* (src/app/lib/api.ts).                                                   *)
(*                                                                         *)
(* One action models one handler run or one continuation after an await:   *)
(* the state updates of one synchronous run are batched into one render,   *)
(* and the polling effect (cleanup of the previous interval, then the      *)
(* effect body) runs as part of the same step whenever one of its          *)
(* dependencies [jobId, result] changed.                                   *)
(*                                                                         *)
(* The server is the environment: it numbers the jobs it creates (the id   *)
(* it returns for the n-th submission is n), lets each job's status        *)
(* progress pending -> processing -> completed | failed without ever       *)
(* regressing, and answers each status request with the status the job has *)
(* at some moment between the request's issue and its response.  Requests  *)
(* take any time, so their responses resolve in any order.                 *)
(***************************************************************************)
EXTENDS Naturals, Sequences, FiniteSets, Bags

\* Number of submissions the model follows.
MaxSubmits == 2
\* Number of submissions followed where submissions overlap.
OverlapSubmits == MaxSubmits + 1
\* Number of status requests that may await their response at once.
MaxInFlight == 2

VARIABLES
    jobId,      \* useState jobId: NoJob or the tracked job id
    result,     \* useState result: Null or <<snapshot>>
    isLoading,  \* useState isLoading
    error,      \* useState error: NoError or the displayed message
    progress,   \* useState progress
    timers,     \* armed intervals, each with the jobId its callback captured
    polls,      \* bag of status requests awaiting their response
    subs,       \* set of submission requests awaiting their response
    nextSub,    \* number of submissions invoked so far
    reported    \* per job: the latest status a response has reported
                \* ("none": the server has not created the job)

session == <<jobId, result, isLoading, error, progress>>
vars == <<jobId, result, isLoading, error, progress, timers, polls, subs,
          nextSub, reported>>

\* ---------------------------------------------------------------- values

\* null of a job id (the ids the server returns are 1, 2, ...)
NoJob == 0
\* null of result
Null == <<>>
\* null of error
NoError == "null"

Terminal == {"completed", "failed"}
Status == {"pending", "processing"} \cup Terminal

JobIds == 1..OverlapSubmits

\* progress shown while the submission request is awaiting its response
SubmitProgress == 5
ProcessingProgress == 50
TerminalProgress == 100

\* The body of GET digitize/result/{id} for a job in status s.
ServerResult(id, s) ==
    [id |-> id,
     status |-> s,
     recognizedText |-> IF s = "completed" THEN "recognized" ELSE "null",
     translatedText |-> IF s = "completed" THEN "translated" ELSE "null",
     failureReason |-> IF s = "failed" THEN "reason" ELSE "null"]

\* { status: "pending" } as DigitizationResult: the other fields are undefined
PendingStub ==
    [id |-> NoJob,
     status |-> "pending",
     recognizedText |-> "undefined",
     translatedText |-> "undefined",
     failureReason |-> "undefined"]

\* The order of a job's statuses: completed and failed are alternatives.
Rank(s) == IF s = "pending" THEN 1 ELSE IF s = "processing" THEN 2 ELSE 3
NotBefore(s, t) == s = t \/ Rank(s) > Rank(t)
Comparable(s, t) == NotBefore(s, t) \/ NotBefore(t, s)
Later(s, t) == IF NotBefore(s, t) THEN s ELSE t

\* ------------------------------------------------------------ error text

\* How a request can fail: a non-2xx response whose body has a message, a
\* non-2xx response whose body has none (or an empty one), and anything that
\* is not an ApiError (fetch rejects, the body is not JSON).
Failures == {"message", "nomessage", "transport"}

\* the message field of a non-2xx body
ServerMessage == "bad image"

\* apiFetch with data.message left out of the ApiError
ApiFetchFallbackOnly(f) == "An API error occurred"

\* apiFetch: the message of the ApiError it throws for a non-2xx response
ApiFetchMessage(f) ==
    IF f = "message" THEN ServerMessage ELSE "An API error occurred"

\* handleSubmitFile: the message of the ApiError it throws itself
UploadMessage(f) ==
    IF f = "message" THEN ServerMessage ELSE "File upload failed"

\* catch of the polling callback
PollErrorMessage(f) ==
    IF f \in {"message", "nomessage"}
    THEN ApiFetchMessage(f)
    ELSE "An unknown error occurred while fetching results."

\* catch of handleSubmitUrl / handleSubmitFile
SubmitErrorMessage(kind, f) ==
    IF kind = "url"
    THEN IF f \in {"message", "nomessage"}
         THEN ApiFetchMessage(f)
         ELSE "An unknown error occurred during URL submission."
    ELSE IF f \in {"message", "nomessage"}
         THEN UploadMessage(f)
         ELSE "An unknown error occurred during file submission."

FileValidationMessage == "Please select a file to upload."

\* ---------------------------------------------------------------- effect

\* The early return of the polling effect: no interval is armed.
EffectReturnsEarly(j, r) ==
    \/ j = NoJob
    \/ (r # Null /\ r[1].status \in Terminal)

\* the effect without its cleanup: the previous interval stays armed
CleanupSkipped(ts) == ts

\* The effect's cleanup, clearInterval(interval): the interval armed by the
\* previous run of the effect is cleared.
Cleanup(ts) ==
    IF ts = <<>> THEN <<>> ELSE SubSeq(ts, 1, Len(ts) - 1)

\* The dependency array [jobId, result]: result is compared by identity, and
\* every setResult(data) installs a new object (fresh).
DepsChanged(j, r, fresh) ==
    j # jobId \/ r # result \/ fresh

\* The armed intervals after a render that leaves jobId = j and result = r.
Effect(j, r, fresh) ==
    IF DepsChanged(j, r, fresh)
    THEN IF EffectReturnsEarly(j, r)
         THEN Cleanup(timers)
         ELSE Append(Cleanup(timers), j)
    ELSE timers

Armed(j) == \E k \in 1..Len(timers) : timers[k] = j

\* ------------------------------------------------------------------ init

Init ==
    /\ jobId = NoJob
    /\ result = Null
    /\ isLoading = FALSE
    /\ error = NoError
    /\ progress = 0
    /\ timers = <<>>
    /\ polls = EmptyBag
    /\ subs = {}
    /\ nextSub = 0
    /\ reported = [j \in JobIds |-> "none"]

\* --------------------------------------------------------------- submit

\* The forms' inputs and submit buttons are disabled while isLoading.
CanSubmit == ~isLoading

\* resetState with setResult(null) left out
ResetStateKeepsResult ==
    [jobId |-> NoJob, result |-> result, isLoading |-> FALSE,
     error |-> NoError, progress |-> 0]

ResetState ==
    [jobId |-> NoJob, result |-> Null, isLoading |-> FALSE,
     error |-> NoError, progress |-> 0]

\* resetState(); setIsLoading(true); setProgress(5); then the request is sent.
StartSubmission(kind) ==
    /\ jobId' = ResetState.jobId
    /\ result' = ResetState.result
    /\ isLoading' = TRUE
    /\ error' = ResetState.error
    /\ progress' = SubmitProgress
    /\ timers' = Effect(ResetState.jobId, ResetState.result, FALSE)
    /\ subs' = subs \cup {[sub |-> nextSub + 1, kind |-> kind]}
    /\ nextSub' = nextSub + 1
    /\ UNCHANGED <<polls, reported>>

\* handleSubmitUrl, invoked with an imageUrl that is a non-empty valid URL
\* (validUrl) or not: the handler does not look at the value, it sends it.
HandleSubmitUrl(limit, validUrl) ==
    /\ CanSubmit
    /\ nextSub < limit
    /\ StartSubmission("url")

\* handleSubmitFile with the check of the file left out
FileUnchecked(hasFile) == FALSE

\* if (!file): no file is selected
FileMissing(hasFile) == ~hasFile

\* handleSubmitFile, invoked with a file selected (hasFile) or not.
HandleSubmitFile(limit, hasFile) ==
    /\ CanSubmit
    /\ IF FileMissing(hasFile)
       THEN /\ error' = FileValidationMessage
            /\ UNCHANGED <<jobId, result, isLoading, progress, timers, polls,
                           subs, nextSub, reported>>
       ELSE /\ nextSub < limit
            /\ StartSubmission("file")

\* The submission's response is 2xx: setJobId(digitizationId);
\* setResult({status: "pending"}).
SubmitOk(r) ==
    /\ r \in subs
    /\ reported' = [reported EXCEPT ![r.sub] = "pending"]
    /\ jobId' = r.sub
    /\ result' = <<PendingStub>>
    /\ timers' = Effect(r.sub, <<PendingStub>>, TRUE)
    /\ subs' = subs \ {r}
    /\ UNCHANGED <<isLoading, error, progress, polls, nextSub>>

\* The submission fails: setError(...); setIsLoading(false).
SubmitFail(r, f) ==
    /\ r \in subs
    /\ error' = SubmitErrorMessage(r.kind, f)
    /\ isLoading' = FALSE
    /\ subs' = subs \ {r}
    /\ UNCHANGED <<jobId, result, progress, timers, polls, nextSub, reported>>

\* ----------------------------------------------------------------- poll

One(r) == SetToBag({r})

\* Number of status requests for job j that await their response.
InFlightFor(j) ==
    LET n(lo) == CopiesIn([id |-> j, lo |-> lo], polls)
    IN n("pending") + n("processing") + n("completed") + n("failed")

\* An armed interval fires: its callback sends the status request for the
\* jobId it captured.  lo is the status already reported for the job when the
\* request is issued: the response cannot carry an earlier one.
Tick(k) ==
    /\ k \in 1..Len(timers)
    /\ BagCardinality(polls) < MaxInFlight
    /\ polls' = polls (+) One([id |-> timers[k], lo |-> reported[timers[k]]])
    /\ UNCHANGED <<jobId, result, isLoading, error, progress, timers, subs,
                   nextSub, reported>>

\* the try branch with setProgress(50) left out
ProgressAfterPollTerminalOnly(s) ==
    IF s \in Terminal THEN TerminalProgress ELSE progress

\* setProgress in the try branch of the polling callback
ProgressAfterPoll(s) ==
    IF s \in Terminal THEN TerminalProgress
    ELSE IF s = "processing" THEN ProcessingProgress
    ELSE progress

\* the terminal branch with setJobId(null) left out
JobIdKeptAfterPoll(s) == jobId

\* setJobId in the try branch of the polling callback
JobIdAfterPoll(s) ==
    IF s \in Terminal THEN NoJob ELSE jobId

\* the terminal branch with setIsLoading(false) left out
LoadingKeptAfterPoll(s) == isLoading

\* setIsLoading in the try branch of the polling callback
LoadingAfterPoll(s) ==
    IF s \in Terminal THEN FALSE ELSE isLoading

\* the catch branch with setJobId(null) left out
JobIdKeptAfterPollError == jobId

\* setJobId in the catch branch of the polling callback
JobIdAfterPollError == NoJob

\* A status response with status s arrives: the try branch of the polling
\* callback.
PollOk(r, s) ==
    /\ BagIn(r, polls)
    /\ NotBefore(s, r.lo)
    /\ Comparable(s, reported[r.id])
    /\ reported' = [reported EXCEPT ![r.id] = Later(s, @)]
    /\ result' = <<ServerResult(r.id, s)>>
    /\ progress' = ProgressAfterPoll(s)
    /\ jobId' = JobIdAfterPoll(s)
    /\ isLoading' = LoadingAfterPoll(s)
    /\ timers' = Effect(JobIdAfterPoll(s), <<ServerResult(r.id, s)>>, TRUE)
    /\ polls' = polls (-) One(r)
    /\ UNCHANGED <<error, subs, nextSub>>

\* A status request fails: the catch branch of the polling callback.
PollFail(r, f) ==
    /\ BagIn(r, polls)
    /\ error' = PollErrorMessage(f)
    /\ isLoading' = FALSE
    /\ jobId' = JobIdAfterPollError
    /\ timers' = Effect(JobIdAfterPollError, result, FALSE)
    /\ polls' = polls (-) One(r)
    /\ UNCHANGED <<result, progress, subs, nextSub, reported>>

\* ----------------------------------------------------------------- spec

\* The steps of a session of at most limit submissions.
NextUpTo(limit) ==
    \/ \E validUrl \in BOOLEAN : HandleSubmitUrl(limit, validUrl)
    \/ \E hasFile \in BOOLEAN : HandleSubmitFile(limit, hasFile)
    \/ \E r \in subs : SubmitOk(r)
    \/ \E r \in subs, f \in Failures : SubmitFail(r, f)
    \/ \E k \in DOMAIN timers : Tick(k)
    \/ \E r \in BagToSet(polls), s \in Status : PollOk(r, s)
    \/ \E r \in BagToSet(polls), f \in Failures : PollFail(r, f)

Next == NextUpTo(MaxSubmits)

Spec == Init /\ [][Next]_vars

NextOverlap == NextUpTo(OverlapSubmits)

\* Sessions long enough for a late response to re-enable the form while a
\* submission is awaiting its response.
SpecOverlap == Init /\ [][NextOverlap]_vars

\* ------------------------------------------------------------- fairness

\* A submission request receives its response.
SubmitResolves ==
    \E r \in subs : SubmitOk(r) \/ \E f \in Failures : SubmitFail(r, f)

\* A status request receives its response.
PollsResolve ==
    \E r \in BagToSet(polls) :
        \/ \E s \in Status : PollOk(r, s)
        \/ \E f \in Failures : PollFail(r, f)

\* An armed interval fires.
IntervalFires == \E k \in DOMAIN timers : Tick(k)

\* A status response reports job j completed or failed.
TerminalReported(j) ==
    \E r \in BagToSet(polls), s \in Terminal : r.id = j /\ PollOk(r, s)

\* Requests do not stay unanswered, an armed interval keeps firing every
\* 3000 ms, and status requests that keep being sent are eventually answered
\* with completed or failed.
Fairness ==
    /\ WF_vars(SubmitResolves)
    /\ WF_vars(PollsResolve)
    /\ WF_vars(IntervalFires)
    /\ SF_vars(\E j \in JobIds : TerminalReported(j))

SpecFair == Init /\ [][Next]_vars /\ Fairness

\* ---------------------------------------------------------------- claims

\* The response of status request r resolves in this step, with a status or
\* with a failure.
PollResolves(r) ==
    \/ \E s \in Status : PollOk(r, s)
    \/ \E f \in Failures : PollFail(r, f)

\* A submission handler is invoked in this step.
SubmissionInvoked ==
    \/ nextSub' # nextSub
    \/ HandleSubmitFile(OverlapSubmits, FALSE)

IsTerminal(r) == r # Null /\ r[1].status \in Terminal

\* C1. Exclusivity / no leakage: when the response of a status request for
\* job A resolves after a later job B has been submitted (the request was
\* awaiting its response when B was submitted), the step changes none of
\* jobId, result, progress, isLoading, error.
C1_NoLeakage ==
    [][\A r \in BagToSet(polls) :
          (r.id < nextSub /\ PollResolves(r)) => UNCHANGED session]_vars

\* C2. In every reachable state at most one status request for the tracked
\* job id awaits its response.
C2_AtMostOneOutstanding ==
    jobId # NoJob => InFlightFor(jobId) <= 1

\* C3. Between one submission's reset and the next submission progress never
\* decreases, and it stays within 0..100.
C3_ProgressMonotone ==
    [][nextSub' = nextSub =>
          (progress' >= progress /\ progress' \in 0..100)]_vars

\* C4. progress = 100 implies that result is present and its status is
\* completed or failed.
C4_FullOnlyAtTerminal ==
    progress = TerminalProgress => IsTerminal(result)

\* A status request for job j is issued in this step.
Requested(j) ==
    \E r \in BagToSet(polls') :
        r.id = j /\ CopiesIn(r, polls') > CopiesIn(r, polls)

Stopped(j) == reported[j] # "none" /\ jobId # j /\ ~Armed(j)

C7_SubmitResets ==
    [][nextSub' = nextSub + 1 =>
          /\ error' = NoError
          /\ result' = Null
          /\ jobId' = NoJob
          /\ isLoading' = TRUE
          /\ progress' = SubmitProgress
          /\ timers' = <<>>
          /\ \E r \in subs' : r.sub = nextSub' /\ r \notin subs]_vars

\* A second submission has just been invoked after the first job had been
\* accepted and polled: the session is reset and the request is in flight.
C7_Witness ==
    /\ nextSub = 2
    /\ \E r \in subs : r.sub = nextSub
    /\ reported[1] = "processing"
    /\ jobId = NoJob
    /\ result = Null
    /\ error = NoError
    /\ isLoading
    /\ progress = SubmitProgress
    /\ timers = <<>>

\* Submission n has failed: it is not awaiting its response and the server
\* created no job for it.
Rejected(n) ==
    /\ n \in 1..nextSub
    /\ \A r \in subs : r.sub # n
    /\ reported[n] = "none"

\* C8. When a submission request fails, the resulting state has isLoading
\* false, error set and jobId none, and no status request is ever issued on
\* behalf of that submission.
C8_SubmitFailure ==
    [][/\ \A r \in subs, f \in Failures :
             SubmitFail(r, f) =>
                 (~isLoading' /\ error' # NoError /\ jobId' = NoJob)
       /\ \A n \in JobIds : Rejected(n) => ~Requested(n)]_vars

\* The session has reached a terminal status or a submission or poll error.
SessionHalted ==
    \/ IsTerminal(result)
    \/ error \notin {NoError, FileValidationMessage}

\* C9. Frozen after halt: once the session has reached a terminal status or
\* an error, no step changes jobId, result, progress, isLoading or error
\* until a submission is invoked.
C9_FrozenAfterHalt ==
    [][(SessionHalted /\ ~SubmissionInvoked) => UNCHANGED session]_vars

\* C10. isLoading is true if and only if a submission request is awaiting
\* its response or a job id is tracked.
C10_BusyIffWorking ==
    isLoading <=> (subs # {} \/ jobId # NoJob)

\* C11. File-path validation: a run of the file submission handler with no
\* file selected issues no request and does not reset the session: jobId,
\* result, isLoading, progress, the armed interval and the requests in
\* flight are unchanged, and error becomes the validation message.
C11_FileValidation ==
    [][HandleSubmitFile(OverlapSubmits, FALSE) =>
          /\ error' = FileValidationMessage
          /\ UNCHANGED <<jobId, result, isLoading, progress, timers, polls,
                         subs, nextSub>>]_vars

\* The file handler has run with no file after a job completed: the
\* completed snapshot is still displayed next to the validation message.
C11_Witness ==
    /\ error = FileValidationMessage
    /\ result = <<ServerResult(1, "completed")>>
    /\ progress = TerminalProgress
    /\ nextSub = 1
    /\ subs = {}

\* C12. URL-path validation: a run of the URL submission handler with an
\* empty or invalid imageUrl issues no submission request and does not reset
\* the session (jobId, result, isLoading, progress and the armed interval are
\* unchanged).
C12_UrlValidation ==
    [][HandleSubmitUrl(OverlapSubmits, FALSE) =>
          UNCHANGED <<jobId, result, isLoading, progress, timers, polls,
                      subs, nextSub>>]_vars

\* A failure has been turned into the displayed message in this step.
FailureDisplayed(f) ==
    \/ \E r \in subs : SubmitFail(r, f)
    \/ \E r \in BagToSet(polls) : PollFail(r, f)

\* C13. When a submission or a status request fails with a non-2xx response
\* whose body has a non-empty message, the displayed error is that message
\* verbatim; and after a failure of any kind (the missing file included) the
\* displayed error is neither absent, empty nor undefined.
C13_MessageVerbatim ==
    [][/\ FailureDisplayed("message") => error' = ServerMessage
       /\ ((\E f \in Failures : FailureDisplayed(f))
              \/ HandleSubmitFile(OverlapSubmits, FALSE)) =>
             error' \notin {NoError, "", "undefined"}]_vars

\* A status request of job 1 was answered non-2xx with a message while the
\* job was processing: the message is displayed and the job is dropped.
C13_Witness ==
    /\ error = ServerMessage
    /\ reported[1] = "processing"
    /\ result = <<ServerResult(1, "processing")>>
    /\ jobId = NoJob
    /\ ~isLoading

\* The failures that carry no message: a body without one, and no parseable
\* body at all.
NoMessage == {"nomessage", "transport"}

\* The texts displayed for a failed submission, and for a failed status
\* request, that carries no message.
SubmissionFallbacks ==
    {SubmitErrorMessage(kind, f) : kind \in {"url", "file"}, f \in NoMessage}
PollFallbacks == {PollErrorMessage(f) : f \in NoMessage}

\* C14. A failure that carries no message displays the fallback of its
\* context: a failed submission never displays a text that failed status
\* requests display, and a failed status request never displays a text that
\* failed submissions display.
C14_ContextFallback ==
    [][\A f \in NoMessage :
          /\ \A r \in subs :
                SubmitFail(r, f) => error' \notin PollFallbacks
          /\ \A r \in BagToSet(polls) :
                PollFail(r, f) => error' \notin SubmissionFallbacks]_vars

IdleAfterOutcome ==
    /\ ~isLoading
    /\ \/ IsTerminal(result) /\ progress = TerminalProgress
       \/ error # NoError

\* C16. Liveness: under fairness (every request is answered, the interval
\* keeps firing, every polled job is eventually reported completed or
\* failed) every submission, which sets isLoading, is eventually followed by
\* a state with isLoading false that shows a terminal snapshot with progress
\* 100 or an error.
C16_EventuallyIdle == isLoading ~> IdleAfterOutcome

\* The second submission's job has been polled to a terminal status: the
\* session is idle at full progress with that job's snapshot.
C16_Witness ==
    /\ nextSub = 2
    /\ reported[2] \in Terminal
    /\ result = <<ServerResult(2, reported[2])>>
    /\ IdleAfterOutcome
    /\ error = NoError

\* The progress the displayed status stands for.
Estimate(s) ==
    IF s = "pending" THEN 5 ELSE IF s = "processing" THEN 50 ELSE 100

\* C17. Progress mapping: in a session of a single job, progress is 5 from
\* the submission until a response reports more than pending, and a status
\* response applied in order (its status s is not before any status already
\* reported for the job) leaves progress = Estimate(s).
C17_ProgressMapping ==
    [][nextSub = 1 =>
          /\ reported[1] \in {"none", "pending"} => progress = Estimate("pending")
          /\ \A r \in BagToSet(polls), s \in Status :
                (PollOk(r, s) /\ NotBefore(s, reported[r.id])) =>
                    progress' = Estimate(s)]_vars

\* The only job of the session has been reported processing by a status
\* response: progress is 50 and the job is still tracked.
C17_Witness ==
    /\ nextSub = 1
    /\ jobId = 1
    /\ result = <<ServerResult(1, "processing")>>
    /\ progress = ProcessingProgress
    /\ isLoading
    /\ error = NoError

\* C18. Status handling for the active job: a response for the tracked job
\* with status pending or processing replaces result by the response, keeps
\* jobId tracked and leaves isLoading true; one with status completed or
\* failed replaces result by the response, sets progress 100 and isLoading
\* false and clears jobId; error is unchanged in both cases.
C18_StatusHandling ==
    [][\A r \in BagToSet(polls), s \in Status :
          (r.id = jobId /\ PollOk(r, s)) =>
              /\ result' = <<ServerResult(r.id, s)>>
              /\ error' = error
              /\ IF s \in Terminal
                 THEN progress' = TerminalProgress /\ ~isLoading' /\ jobId' = NoJob
                 ELSE jobId' = jobId /\ isLoading' = TRUE]_vars

\* C19. Overlapping submissions: the response of a submission that is no
\* longer the most recently invoked one installs neither its job id nor its
\* error, and once no submission awaits its response the tracked jobId, if
\* any, is the id returned for the most recently invoked submission.
C19_LatestSubmissionWins ==
    [][/\ \A r \in subs :
             r.sub < nextSub =>
                 /\ SubmitOk(r) => jobId' # r.sub
                 /\ \A f \in Failures : SubmitFail(r, f) => error' = error
       /\ (subs' = {} /\ jobId' # NoJob) => jobId' = nextSub']_vars

====
